---- MODULE Spec2Model ----
(***************************************************************************)
(* gormeasy: the migration commands of Start (up, down, status,           *)
(* regression) over the History Store (table "migrations").               *)
(*                                                                         *)
(* The Migrator is the one built by getMigrator: gormigrate/v2 with       *)
(* UseTransaction = false, ValidateUnknownMigrations = true and no        *)
(* InitSchema.  Its methods Migrate, RollbackLast and RollbackTo are      *)
(* modelled as the library executes them under those options; with        *)
(* transactions off, begin/commit/rollback are no-ops and every write is  *)
(* immediately durable.                                                    *)
(*                                                                         *)
(* Migration ids are the numbers 1..NumIds; the Registry is a sequence of  *)
(* ids, so Registry order and the order of the ids are independent.  No    *)
(* id is empty or the library's reserved id, and every definition has a   *)
(* forward and a reverse action, as TestMigrationStructure requires.      *)
(* Of the database's failures the one the commands can cause is modelled   *)
(* everywhere: a query on the migrations table before it was created.     *)
(* SpecFault adds the failure getAppliedIDs is written for: a read of the *)
(* table that returns an error.                                            *)
(* One action is one run of the program with one command: the process is  *)
(* single-threaded and each command runs to completion.                    *)
(***************************************************************************)
EXTENDS Integers, Sequences, FiniteSets, TLC

NumIds == 3
MaxReg == 3

Ids == 1..NumIds

\* value of the --id flag when it is not given (the empty string)
NoId == 0

\* error values
Nil == "nil"
ErrNoMigrationDefined == "ErrNoMigrationDefined"
ErrDuplicatedID == "DuplicatedIDError"
ErrUnknownPastMigration == "ErrUnknownPastMigration"
ErrMigrationIDDoesNotExist == "ErrMigrationIDDoesNotExist"
ErrNoRunMigration == "ErrNoRunMigration"
ErrAction == "ActionError"
ErrDB == "DBError"

VARIABLES
    registry,   \* the migrations handed to Start: a sequence of ids
    db,         \* the database: [table |-> the migrations table exists, rows |-> its ids]
    cmd,        \* the command that ran last, its flags and the actions that failed in it
    err,        \* the error the command's operation returned
    calls,      \* the forward / reverse actions the command invoked, in order
    before,     \* the database when the command started
    stages,     \* regression: the rows and the calls of each completed step
    out,        \* what the command printed: the diff and the status reports, in order
    fault,      \* the reads of getAppliedIDs that failed in the command
    steps,      \* the steps Start took for the command, in order, and how it ended
    tables,     \* the tables of the database that migrations create and drop
    drop        \* the last call of DropTable: its names, the refused table, the tables before it, its error

vars == <<registry, db, cmd, err, calls, before, stages, out, fault, steps, tables, drop>>

----------------------------------------------------------------------------
(* helpers *)

Range(s) == {s[i] : i \in 1..Len(s)}

UniqueIds(ms) == \A i, j \in 1..Len(ms) : ms[i] = ms[j] => i = j

RECURSIVE SeqsUpTo(_)
SeqsUpTo(n) ==
    IF n = 0 THEN {<<>>}
    ELSE LET shorter == SeqsUpTo(n - 1)
         IN  shorter \cup {Append(s, x) : s \in {t \in shorter : Len(t) = n - 1}, x \in Ids}

\* every Registry a caller can pass, and those whose ids are unique
Registries == SeqsUpTo(MaxReg)
WellFormedRegistries == {ms \in Registries : UniqueIds(ms)}

\* a database that was just created: no migrations table
FreshDB == [table |-> FALSE, rows |-> {}]

\* the state of one Migrator call: the database, the actions invoked, the error
Run(d) == [db |-> d, calls |-> <<>>, err |-> Nil]

Failed(r, e) == [r EXCEPT !.err = e]

----------------------------------------------------------------------------
(* the Migrator (gormigrate with the options of getMigrator) *)

\* mutation: an empty Registry is accepted
hasMigrations_any(ms) == TRUE

hasMigrations(ms) == Len(ms) > 0

\* mutation: repeated ids are not looked for
checkDuplicatedID_off(ms) == FALSE

checkDuplicatedID(ms) == \E i, j \in 1..Len(ms) : i < j /\ ms[i] = ms[j]

\* mutation: the existence check of the target always passes
checkIDExist_always(ms, id) == TRUE

checkIDExist(ms, id) == \E i \in 1..Len(ms) : ms[i] = id

\* CREATE TABLE IF NOT EXISTS migrations
createMigrationTableIfNotExists(d) == [d EXCEPT !.table = TRUE]

\* mutation: the rows are never compared with the Registry
unknownMigrationsHaveHappened_off(ms, d) == FALSE

\* ValidateUnknownMigrations: a row whose id no migration of the Registry has
unknownMigrationsHaveHappened(ms, d) == \E x \in d.rows : x \notin Range(ms)

\* mutation: no migration counts as having run
migrationRan_never(d, id) == FALSE

\* SELECT count(*) FROM migrations WHERE id = ?
migrationRan(d, id) == id \in d.rows

\* mutation: the record of a migration that ran is not written
insertMigration_none(d, id) == d

insertMigration(d, id) == [d EXCEPT !.rows = @ \cup {id}]

\* mutation: the record of a reversed migration is kept
deleteMigration_keep(d, id) == d

deleteMigration(d, id) == [d EXCEPT !.rows = @ \ {id}]

\* mutation: the Migrate loop stops after its first entry
isMigrateTarget_first(ms, i) == TRUE

\* the Migrate loop stops after the entry whose id is the last entry's id
isMigrateTarget(ms, i) == ms[i] = ms[Len(ms)]

\* mutation: the RollbackTo loop stops one entry late, after the target
isRollbackTarget_late(ms, i, id) == i < Len(ms) /\ ms[i + 1] = id

\* the RollbackTo loop stops at the entry whose id is the target
isRollbackTarget(ms, i, id) == ms[i] = id

\* mutation: the record is inserted before the forward action has succeeded
runMigration_recordFirst(r, id, failUp) ==
    IF migrationRan(r.db, id) THEN r
    ELSE LET called == [r EXCEPT !.calls = Append(@, <<"Migrate", id>>),
                                 !.db = insertMigration(@, id)]
         IN  IF id \in failUp THEN Failed(called, ErrAction) ELSE called

\* run the forward action of id unless its record exists; insert the record on success
runMigration(r, id, failUp) ==
    IF migrationRan(r.db, id) THEN r
    ELSE LET called == [r EXCEPT !.calls = Append(@, <<"Migrate", id>>)]
         IN  IF id \in failUp THEN Failed(called, ErrAction)
             ELSE [called EXCEPT !.db = insertMigration(@, id)]

\* mutation: the record is deleted whether or not the reverse action succeeded
rollbackMigration_deleteFirst(r, id, failDown) ==
    LET called == [r EXCEPT !.calls = Append(@, <<"Rollback", id>>),
                            !.db = deleteMigration(@, id)]
    IN  IF id \in failDown THEN Failed(called, ErrAction) ELSE called

\* run the reverse action of id; delete the record on success
rollbackMigration(r, id, failDown) ==
    LET called == [r EXCEPT !.calls = Append(@, <<"Rollback", id>>)]
    IN  IF id \in failDown THEN Failed(called, ErrAction)
        ELSE [called EXCEPT !.db = deleteMigration(@, id)]

RECURSIVE migrateLoop(_, _, _, _)
migrateLoop(ms, i, r, failUp) ==
    IF i > Len(ms) THEN r
    ELSE LET r2 == runMigration(r, ms[i], failUp)
         IN  IF r2.err # Nil THEN r2
             ELSE IF isMigrateTarget(ms, i) THEN r2
             ELSE migrateLoop(ms, i + 1, r2, failUp)

\* the validations run in this order; the table is created before the rows
\* are compared with the Registry
Migrate(ms, d, failUp) ==
    IF ~hasMigrations(ms) THEN Failed(Run(d), ErrNoMigrationDefined)
    ELSE IF checkDuplicatedID(ms) THEN Failed(Run(d), ErrDuplicatedID)
    ELSE LET d1 == createMigrationTableIfNotExists(d)
         IN  IF unknownMigrationsHaveHappened(ms, d1)
             THEN Failed(Run(d1), ErrUnknownPastMigration)
             ELSE migrateLoop(ms, 1, Run(d1), failUp)

\* mutation: the rollback loops walk the Registry from its first entry
rollbackIndex_forward(ms, k) == k

\* both rollback loops walk the Registry from its last entry to its first:
\* the entry that iteration k (from 1) visits
rollbackIndex(ms, k) == Len(ms) - k + 1

\* index of the last Registry entry whose record exists, 0 when there is none
RECURSIVE getLastRunMigration(_, _, _)
getLastRunMigration(ms, d, k) ==
    IF k > Len(ms) THEN 0
    ELSE IF migrationRan(d, ms[rollbackIndex(ms, k)]) THEN rollbackIndex(ms, k)
    ELSE getLastRunMigration(ms, d, k + 1)

\* mutation: the two sentinel errors exchanged
RollbackLast_sentinel(ms, d, failDown) ==
    IF Len(ms) = 0 THEN Failed(Run(d), ErrNoRunMigration)
    ELSE IF ~d.table THEN Failed(Run(d), ErrDB)
    ELSE LET last == getLastRunMigration(ms, d, 1)
         IN  IF last = 0 THEN Failed(Run(d), ErrNoMigrationDefined)
             ELSE rollbackMigration(Run(d), ms[last], failDown)

\* a query on the migrations table fails while the table does not exist
RollbackLast(ms, d, failDown) ==
    IF Len(ms) = 0 THEN Failed(Run(d), ErrNoMigrationDefined)
    ELSE IF ~d.table THEN Failed(Run(d), ErrDB)
    ELSE LET last == getLastRunMigration(ms, d, 1)
         IN  IF last = 0 THEN Failed(Run(d), ErrNoRunMigration)
             ELSE rollbackMigration(Run(d), ms[last], failDown)

RECURSIVE rollbackToLoop(_, _, _, _, _)
rollbackToLoop(ms, k, r, id, failDown) ==
    IF k > Len(ms) THEN r
    ELSE LET i == rollbackIndex(ms, k)
         IN  IF isRollbackTarget(ms, i, id) THEN r
             ELSE IF ~r.db.table THEN Failed(r, ErrDB)
             ELSE IF migrationRan(r.db, ms[i])
                  THEN LET r2 == rollbackMigration(r, ms[i], failDown)
                       IN  IF r2.err # Nil THEN r2
                           ELSE rollbackToLoop(ms, k + 1, r2, id, failDown)
                  ELSE rollbackToLoop(ms, k + 1, r, id, failDown)

\* mutation: the entry reversed is the target itself, not the entries after it
RollbackTo_onlyTarget(ms, d, id, failDown) ==
    IF Len(ms) = 0 THEN Failed(Run(d), ErrNoMigrationDefined)
    ELSE IF ~checkIDExist(ms, id) THEN Failed(Run(d), ErrMigrationIDDoesNotExist)
    ELSE IF ~d.table THEN Failed(Run(d), ErrDB)
    ELSE IF migrationRan(d, id) THEN rollbackMigration(Run(d), id, failDown)
    ELSE Run(d)

\* RollbackTo(id): reverse the applied entries that follow id, last first
RollbackTo(ms, d, id, failDown) ==
    IF Len(ms) = 0 THEN Failed(Run(d), ErrNoMigrationDefined)
    ELSE IF ~checkIDExist(ms, id) THEN Failed(Run(d), ErrMigrationIDDoesNotExist)
    ELSE rollbackToLoop(ms, 1, Run(d), id, failDown)

----------------------------------------------------------------------------
(* gormeasy *)

\* r continued by one more RollbackLast: its calls follow those of r
thenRollbackLast(ms, r, failDown) ==
    LET s == RollbackLast(ms, r.db, failDown)
    IN  [s EXCEPT !.calls = r.calls \o @]

\* mutation: every error of RollbackLast ends the loop without error
isLoopEnd_any(e) == TRUE

\* ErrNoRunMigration ends the loop without error; any other error is returned
isLoopEnd(e) == e = ErrNoRunMigration

RECURSIVE rollbackAllLoop(_, _, _)
rollbackAllLoop(ms, r, failDown) ==
    LET s == thenRollbackLast(ms, r, failDown)
    IN  IF s.err = Nil THEN rollbackAllLoop(ms, s, failDown)
        ELSE IF isLoopEnd(s.err) THEN [s EXCEPT !.err = Nil]
        ELSE s

rollbackAllMigrations(ms, d, failDown) == rollbackAllLoop(ms, Run(d), failDown)

\* db.AutoMigrate(&MigrationsHistory{}): creates the table when it is missing
AutoMigrate(d) == [d EXCEPT !.table = TRUE]

\* mutation: the status writes a record of its own into the table
printMigrationStatus_recording(d) == insertMigration(AutoMigrate(d), 1)

\* the effect of printMigrationStatus on the database
printMigrationStatus(d) == AutoMigrate(d)

\* the places where a command reads the applied ids: RunMigrations before
\* and after Migrate, the status RunMigrations prints after a diff, and the
\* status the command prints last
ReadSites == {"before", "after", "diffStatus", "status"}

\* a failed read is reported and answered with the empty set
getAppliedIDs(d, readFailed) == IF readFailed \/ ~d.table THEN {} ELSE d.rows

\* mutation: every id read after the run counts as new
findNewMigrations_all(beforeIds, afterIds) == afterIds

findNewMigrations(beforeIds, afterIds) == {id \in afterIds : id \notin beforeIds}

\* one printed report: kind is "ReadFailed", "NoChange", "New" (ids: the new
\* ids, printed in the iteration order of a Go map), "UpToDate" or "Status"
\* (groups: the groups listed, each <<heading, ids>>, in the order printed)
Line(kind, force, ids, groups) ==
    [kind |-> kind, force |-> force, ids |-> ids, groups |-> groups]

readReport(d, readFailed) ==
    IF readFailed \/ ~d.table THEN <<Line("ReadFailed", FALSE, {}, <<>>)>> ELSE <<>>

\* the ids of the entries of ms that are (keep = TRUE) or are not in applied,
\* in the order of ms
RECURSIVE listEntries(_, _, _, _)
listEntries(ms, i, applied, keep) ==
    IF i > Len(ms) THEN <<>>
    ELSE IF (ms[i] \in applied) = keep
         THEN <<ms[i]>> \o listEntries(ms, i + 1, applied, keep)
         ELSE listEntries(ms, i + 1, applied, keep)

\* mutation: the one line is printed although printing is forced
isUpToDate_unforced(n, appliedCount, pendingCount, forcePrint) ==
    appliedCount = n /\ pendingCount = 0

\* the one line is printed when none of the n entries is pending and printing
\* is not forced
isUpToDate(n, appliedCount, pendingCount, forcePrint) ==
    appliedCount = n /\ pendingCount = 0 /\ ~forcePrint

\* the groups of the listing: a group without entries is not printed
statusGroups(appliedList, pendingList) ==
    (IF Len(appliedList) > 0 THEN << <<"Applied", appliedList>> >> ELSE <<>>)
        \o (IF Len(pendingList) > 0 THEN << <<"Pending", pendingList>> >> ELSE <<>>)

\* what printMigrationStatus prints for the ids it read: appliedCount and
\* pendingCount are the numbers of entries of the two groups
statusReport(ms, applied, forcePrint) ==
    LET appliedList == listEntries(ms, 1, applied, TRUE)
        pendingList == listEntries(ms, 1, applied, FALSE)
    IN  IF isUpToDate(Len(ms), Len(appliedList), Len(pendingList), forcePrint)
        THEN <<Line("UpToDate", forcePrint, {}, <<>>)>>
        ELSE <<Line("Status", forcePrint, {}, statusGroups(appliedList, pendingList))>>

\* what printMigrationStatus prints on database d (after its AutoMigrate)
statusLines(ms, d, forcePrint, readFailed) ==
    LET d1 == AutoMigrate(d)
    IN  readReport(d1, readFailed)
            \o statusReport(ms, getAppliedIDs(d1, readFailed), forcePrint)

\* what RunMigrations prints after a Migrate that returned nil on database d
diffLines(ms, beforeIds, d, readFail) ==
    LET afterIds == getAppliedIDs(d, "after" \in readFail)
        diff == findNewMigrations(beforeIds, afterIds)
    IN  readReport(d, "after" \in readFail)
            \o (IF diff = {}
                THEN <<Line("NoChange", FALSE, {}, <<>>)>>
                ELSE <<Line("New", FALSE, diff, <<>>)>>
                        \o statusLines(ms, d, FALSE, "diffStatus" \in readFail))

\* mutation: the Migrator takes the ids getAppliedIDs read for the records
migrateInput_snapshot(d, beforeIds) == [d EXCEPT !.rows = beforeIds]

\* the Migrator works on the database, not on the ids getAppliedIDs read
migrateInput(d, beforeIds) == d

\* RunMigrations: the Migrator's result and, in out, what was printed
RunMigrations(ms, d, failUp, readFail) ==
    LET d1 == AutoMigrate(d)
        beforeIds == getAppliedIDs(d1, "before" \in readFail)
        r == Migrate(ms, migrateInput(d1, beforeIds), failUp)
    IN  [db |-> r.db, calls |-> r.calls, err |-> r.err,
         out |-> readReport(d1, "before" \in readFail)
                    \o (IF r.err # Nil THEN <<>> ELSE diffLines(ms, beforeIds, r.db, readFail))]

\* how Start is run: with --no-exit or without it, and whether the error of
\* the command, when there is one, is suppressed by the Start that looks for
\* words in the text of the error (the Start built on a command-line library
\* returns nil for an error whose text holds "flag provided but not
\* defined", "No help topic", or both "command" and "not found")
Hows == [noExit : BOOLEAN, suppress : BOOLEAN]

\* the Start that switches on the command, without --no-exit
Plain == [noExit |-> FALSE, suppress |-> FALSE]

\* the errors whose text is written by the author of the migrations
hasFreeText(e) == e = ErrAction

\* how a handler and then Start end: a handler returns its error, returns
\* nil under --no-exit, and otherwise exits with status 0; Start returns
\* what the handler returned, unless it suppresses the error
ending(e, how) ==
    IF e = Nil
    THEN IF how.noExit THEN <<"ReturnNil", "StartReturnsNil">> ELSE <<"Exit0">>
    ELSE IF how.suppress /\ hasFreeText(e)
         THEN <<"ReturnError", "StartReturnsNil">>
         ELSE <<"ReturnError", "StartReturnsError">>

Command(name, id, all, failUp, failDown, failUp2) ==
    [name |-> name, id |-> id, all |-> all,
     failUp |-> failUp, failDown |-> failDown, failUp2 |-> failUp2]

\* the action that is made to fail in one operation: none, or that of one
\* Registry entry.  Every operation stops at the first action that fails, so
\* what the actions after it would have returned is never observed.
Failing == {{}} \cup {{x} : x \in Range(registry)}

\* of the actions made to fail, the ones the operation called: an action that
\* was never called has returned nothing, and the command is recorded with
\* the failures that took place
Met(fail, cs) == {x \in fail : \E k \in 1..Len(cs) : cs[k][2] = x}

\* regression stops at its first failing step, so at most one action is seen
\* to fail in it: one of the first Migrate, of the rollback or of the second
\* Migrate
RegressionFailing ==
    {<<{}, {}, {}>>}
        \cup {<<f, {}, {}>> : f \in Failing}
        \cup {<<{}, f, {}>> : f \in Failing}
        \cup {<<{}, {}, f>> : f \in Failing}

\* ---- DropTable ----
NumTables == 2
MaxNames == 2

TableNames == 1..NumTables

\* the tableNames ...interface{} of DropTable: a string naming a table, a
\* value of another kind (here an int), or a nil interface value
StringName(t) == [kind |-> "string", table |-> t]
IntName == [kind |-> "int", table |-> 0]
NilName == [kind |-> "nil", table |-> 0]
NameValues == {StringName(t) : t \in TableNames} \cup {IntName, NilName}

NameLists == UNION {[1..n -> NameValues] : n \in 0..MaxNames}

ErrNotString == "table name must be a string"
ErrNoTable == "table does not exist"
\* reflect.TypeOf(nil) is the nil Type and Kind() on it panics: nothing is returned
NilPanic == "panic: nil pointer dereference"

\* mutation: every table is reported to exist
HasTable_always(tbls, name) == TRUE

\* tx.Migrator().HasTable(tableName)
HasTable(tbls, name) == name.table \in tbls

\* the loop of DropTable: the first name that fails a check decides the error
RECURSIVE checkNames(_, _, _)
checkNames(tbls, names, k) ==
    IF k > Len(names) THEN Nil
    ELSE IF names[k].kind = "nil" THEN NilPanic
    ELSE IF names[k].kind # "string" THEN ErrNotString
    ELSE IF ~HasTable(tbls, names[k]) THEN ErrNoTable
    ELSE checkNames(tbls, names, k + 1)

\* tx.Migrator().DropTable(tableNames...): gorm drops the tables from the
\* last name to the first and stops at the first statement that fails
RECURSIVE migratorDropTable(_, _, _, _)
migratorDropTable(tbls, names, k, failDrop) ==
    IF k = 0 THEN [tables |-> tbls, err |-> Nil]
    ELSE IF names[k].table = failDrop THEN [tables |-> tbls, err |-> ErrDB]
    ELSE migratorDropTable(tbls \ {names[k].table}, names, k - 1, failDrop)

DropTable(tbls, names, failDrop) ==
    LET e == checkNames(tbls, names, 1)
    IN  IF e # Nil THEN [tables |-> tbls, err |-> e]
        ELSE migratorDropTable(tbls, names, Len(names), failDrop)

\* no call of DropTable yet
NoDrop == [called |-> FALSE, names |-> <<>>, failDrop |-> 0, before |-> {}, err |-> Nil]

----------------------------------------------------------------------------
Init ==
    /\ registry \in WellFormedRegistries
    /\ db = FreshDB
    /\ cmd = Command("none", NoId, FALSE, {}, {}, {})
    /\ err = Nil
    /\ calls = <<>>
    /\ before = FreshDB
    /\ stages = <<>>
    /\ out = <<>>
    /\ fault = {}
    /\ steps = <<>>
    /\ tables = {}
    /\ drop = NoDrop

\* `up` in which the reads readFail fail: RunMigrations, then the status on
\* success and on failure
UpStart(readFail, how) ==
    \E failUp \in Failing :
        \E r \in {RunMigrations(registry, db, failUp, readFail)} :
            /\ cmd' = Command("up", NoId, FALSE, Met(failUp, r.calls), {}, {})
            /\ before' = db
            /\ db' = printMigrationStatus(r.db)
            /\ err' = r.err
            /\ calls' = r.calls
            /\ stages' = <<>>
            /\ out' = r.out \o statusLines(registry, r.db, FALSE, "status" \in readFail)
            /\ fault' = readFail
            /\ steps' = <<"getGorm", "RunMigrations", "Status">> \o ending(r.err, how)
            /\ UNCHANGED <<registry, tables, drop>>

UpWith(readFail) == UpStart(readFail, Plain)

Up == UpWith({})

\* mutation: --all is looked at before --id
downChoice_allFirst(id, all) ==
    IF all THEN "RollbackAll"
    ELSE IF id # NoId THEN "RollbackTo"
    ELSE "RollbackLast"

\* the rollback `down` selects: --id first, then --all, then the last one
downChoice(id, all) ==
    IF id # NoId THEN "RollbackTo"
    ELSE IF all THEN "RollbackAll"
    ELSE "RollbackLast"

downOperation(ms, d, id, all, failDown) ==
    IF downChoice(id, all) = "RollbackTo" THEN RollbackTo(ms, d, id, failDown)
    ELSE IF downChoice(id, all) = "RollbackAll" THEN rollbackAllMigrations(ms, d, failDown)
    ELSE RollbackLast(ms, d, failDown)

\* `down` in which the reads readFail fail: one rollback operation, then the
\* status on success and on failure
DownStart(readFail, how) ==
    \E id \in Ids \cup {NoId}, all \in BOOLEAN, failDown \in Failing :
        \E r \in {downOperation(registry, db, id, all, failDown)} :
            /\ cmd' = Command("down", id, all, {}, Met(failDown, r.calls), {})
            /\ before' = db
            /\ db' = printMigrationStatus(r.db)
            /\ err' = r.err
            /\ calls' = r.calls
            /\ stages' = <<>>
            /\ out' = statusLines(registry, r.db, FALSE, "status" \in readFail)
            /\ fault' = readFail
            /\ steps' = <<"getGorm", downChoice(id, all), "Status">> \o ending(r.err, how)
            /\ UNCHANGED <<registry, tables, drop>>

DownWith(readFail) == DownStart(readFail, Plain)

Down == DownWith({})

\* `status` in which the reads readFail fail
StatusWith(readFail) ==
    /\ cmd' = Command("status", NoId, FALSE, {}, {}, {})
    /\ before' = db
    /\ db' = printMigrationStatus(db)
    /\ err' = Nil
    /\ calls' = <<>>
    /\ stages' = <<>>
    /\ out' = statusLines(registry, db, FALSE, "status" \in readFail)
    /\ fault' = readFail
    /\ steps' = <<"getGorm", "Status">> \o ending(Nil, Plain)
    /\ UNCHANGED <<registry, tables, drop>>

Status == StatusWith({})

Stage(r) == [rows |-> r.db.rows, calls |-> r.calls]

\* `regression`: on a database created anew, Migrate, rollback all, Migrate
\* again, the status after each; the first failing step ends the command
\* mutation: the test database is created before the old one is deleted
RegressionSetUp_createFirst == <<"getGorm", "CreateDatabase", "DeleteDatabase", "getGorm">>

\* the steps of regression up to its first Migrate
RegressionSetUp == <<"getGorm", "DeleteDatabase", "CreateDatabase", "getGorm">>

\* regression whose DeleteDatabase or CreateDatabase failed: it returns the
\* error before the test database is opened
regressionSetUpFails(how) ==
    \E n \in {2, 3} :
        /\ cmd' = Command("regression", NoId, FALSE, {}, {}, {})
        /\ before' = FreshDB
        /\ err' = ErrDB
        /\ calls' = <<>>
        /\ stages' = <<>>
        /\ out' = <<>>
        /\ fault' = {}
        /\ steps' = SubSeq(RegressionSetUp, 1, n) \o ending(ErrDB, how)
        /\ UNCHANGED <<registry, db, tables, drop>>

\* regression on the test database it created: Migrate, rollback of all,
\* Migrate, the forced status after each, up to the first step that fails
regressionRuns(how) ==
    \E fail \in RegressionFailing :
        \E r1 \in {Migrate(registry, FreshDB, fail[1])} :
        \E r2 \in {rollbackAllMigrations(registry, printMigrationStatus(r1.db), fail[2])} :
        \E r3 \in {Migrate(registry, printMigrationStatus(r2.db), fail[3])} :
            /\ cmd' = Command("regression", NoId, FALSE, fail[1], fail[2], fail[3])
            /\ before' = FreshDB
            /\ IF r1.err # Nil
               THEN /\ err' = r1.err
                    /\ calls' = r1.calls
                    /\ stages' = <<>>
                    /\ out' = <<>>
                    /\ steps' = RegressionSetUp \o <<"Migrate">> \o ending(r1.err, how)
               ELSE IF r2.err # Nil
               THEN /\ err' = r2.err
                    /\ calls' = r1.calls \o r2.calls
                    /\ stages' = <<Stage(r1)>>
                    /\ out' = statusLines(registry, r1.db, TRUE, FALSE)
                    /\ steps' = RegressionSetUp \o <<"Migrate", "Status", "RollbackAll">>
                                    \o ending(r2.err, how)
               ELSE IF r3.err # Nil
               THEN /\ err' = r3.err
                    /\ calls' = r1.calls \o r2.calls \o r3.calls
                    /\ stages' = <<Stage(r1), Stage(r2)>>
                    /\ out' = statusLines(registry, r1.db, TRUE, FALSE)
                                \o statusLines(registry, r2.db, TRUE, FALSE)
                    /\ steps' = RegressionSetUp
                                    \o <<"Migrate", "Status", "RollbackAll", "Status", "Migrate">>
                                    \o ending(r3.err, how)
               ELSE /\ err' = Nil
                    /\ calls' = r1.calls \o r2.calls \o r3.calls
                    /\ stages' = <<Stage(r1), Stage(r2), Stage(r3)>>
                    /\ out' = statusLines(registry, r1.db, TRUE, FALSE)
                                \o statusLines(registry, r2.db, TRUE, FALSE)
                                \o statusLines(registry, r3.db, TRUE, FALSE)
                    /\ steps' = RegressionSetUp
                                    \o <<"Migrate", "Status", "RollbackAll", "Status",
                                         "Migrate", "Status", "Success">>
                                    \o ending(Nil, Plain)
            /\ fault' = {}
            /\ UNCHANGED <<registry, db, tables, drop>>

RegressionStart(how) == regressionSetUpFails(how) \/ regressionRuns(how)

Regression == RegressionStart(Plain)

\* ms with id inserted before position i, and ms without its entry i
InsertAt(ms, i, id) == SubSeq(ms, 1, i - 1) \o <<id>> \o SubSeq(ms, i, Len(ms))
RemoveAt(ms, i) == SubSeq(ms, 1, i - 1) \o SubSeq(ms, i + 1, Len(ms))

\* the migrations lists one edit away from ms: a definition added or removed
Edits(ms) ==
    {InsertAt(ms, i, id) : i \in 1..(IF Len(ms) < MaxReg THEN Len(ms) + 1 ELSE 0), id \in Ids}
        \cup {RemoveAt(ms, i) : i \in 1..Len(ms)}

\* the program is rebuilt with an edited migrations list and pointed at the
\* same database
Deploy ==
    \E ms \in Edits(registry) :
        /\ registry' = ms
        /\ cmd' = Command("deploy", NoId, FALSE, {}, {}, {})
        /\ before' = db
        /\ err' = Nil
        /\ calls' = <<>>
        /\ stages' = <<>>
        /\ out' = <<>>
        /\ fault' = {}
        /\ steps' = <<>>
        /\ UNCHANGED <<db, tables, drop>>

\* one Registry for the life of the database
Next == Up \/ Down \/ Status \/ Regression

Spec == Init /\ [][Next]_vars

\* the Registry is edited between runs against one database (regression
\* runs on a database of its own and is left to Spec)
NextDrift == Up \/ Down \/ Status \/ Deploy

SpecDrift == Init /\ [][NextDrift]_vars

\* `down --all` step by step: the loop of rollbackAllMigrations runs one
\* RollbackLast in each step, on the database the previous step left
Running == cmd.name = "rollbackAllMigrations"

\* `down --all` starts: getMigrator, nothing has run yet
BeginRollbackAll ==
    /\ ~Running
    /\ \E failDown \in Failing :
           cmd' = Command("rollbackAllMigrations", NoId, TRUE, {}, failDown, {})
    /\ before' = db
    /\ err' = Nil
    /\ calls' = <<>>
    /\ stages' = <<>>
    /\ out' = <<>>
    /\ fault' = {}
    /\ steps' = <<"getGorm">>
    /\ UNCHANGED <<registry, db, tables, drop>>

\* one iteration of the loop: a RollbackLast that returns nil is followed by
\* another iteration; an error ends the loop and the command, which prints
\* the status
StepRollbackLast ==
    /\ Running
    /\ \E s \in {RollbackLast(registry, db, cmd.failDown)} :
           /\ calls' = calls \o s.calls
           /\ IF s.err = Nil
              THEN /\ db' = s.db
                   /\ UNCHANGED <<cmd, err, out, steps>>
              ELSE /\ db' = printMigrationStatus(s.db)
                   /\ cmd' = [cmd EXCEPT !.name = "down"]
                   /\ err' = IF isLoopEnd(s.err) THEN Nil ELSE s.err
                   /\ out' = statusLines(registry, s.db, FALSE, FALSE)
                   /\ steps' = <<"getGorm", "RollbackAll", "Status">>
                                   \o ending(IF isLoopEnd(s.err) THEN Nil ELSE s.err, Plain)
    /\ UNCHANGED <<registry, before, stages, fault, tables, drop>>

\* a command starts when the previous one has returned
UpAlone == ~Running /\ Up

\* the commands run one at a time and the loop is the only thing a running
\* `down --all` does, so an iteration that can run does run
NextLoop == UpAlone \/ BeginRollbackAll \/ StepRollbackLast

SpecLoop == Init /\ [][NextLoop]_vars /\ WF_vars(StepRollbackLast)

\* mutation: an argument that is no command is taken for `status`
NoCommand_asStatus ==
    \E unknown \in BOOLEAN :
        /\ cmd' = Command(IF unknown THEN "unknown" ELSE "", NoId, FALSE, {}, {}, {})
        /\ before' = db
        /\ db' = printMigrationStatus(db)
        /\ err' = Nil
        /\ calls' = <<>>
        /\ stages' = <<>>
        /\ out' = statusLines(registry, db, FALSE, FALSE)
        /\ fault' = {}
        /\ steps' = <<"getGorm", "Status">> \o ending(Nil, Plain)
        /\ UNCHANGED <<registry, tables, drop>>

\* Start without a command, or with a first argument that is no command
\* (unknown = TRUE): it returns nil
NoCommand ==
    \E unknown \in BOOLEAN :
        /\ cmd' = Command(IF unknown THEN "unknown" ELSE "", NoId, FALSE, {}, {}, {})
        /\ before' = db
        /\ err' = Nil
        /\ calls' = <<>>
        /\ stages' = <<>>
        /\ out' = <<>>
        /\ fault' = {}
        /\ steps' = <<"StartReturnsNil">>
        /\ UNCHANGED <<registry, db, tables, drop>>

UpAnyStart == \E how \in Hows : UpStart({}, how)

DownAnyStart == \E how \in {h \in Hows : ~h.noExit} : DownStart({}, how)

RegressionAnyStart == \E how \in {h \in Hows : ~h.noExit} : RegressionStart(how)

\* the commands as either Start runs them
NextStart == UpAnyStart \/ DownAnyStart \/ Status \/ RegressionAnyStart \/ NoCommand

SpecStart == Init /\ [][NextStart]_vars

\* the reads that can fail in a command, at least one of them failing
ReadFaults == (SUBSET ReadSites) \ {{}}

UpFault == \E readFail \in ReadFaults : UpWith(readFail)

DownFault == DownWith({"status"})

StatusFault == StatusWith({"status"})

\* one Registry, and reads of the migrations table that may fail
NextFault == Up \/ Down \/ Status \/ UpFault \/ DownFault \/ StatusFault

SpecFault == Init /\ [][NextFault]_vars

\* a forward action creates a table (tx.AutoMigrate of a model)
CreateTable ==
    \E t \in TableNames \ tables :
        /\ tables' = tables \cup {t}
        /\ drop' = NoDrop
        /\ UNCHANGED <<registry, db, cmd, err, calls, before, stages, out, fault, steps>>

\* a reverse action calls DropTable(tx, names...); failDrop is the table
\* whose DROP statement the database refuses (0: none)
CallDropTable ==
    \E names \in NameLists, failDrop \in {0} \cup TableNames :
        \E r \in {DropTable(tables, names, failDrop)} :
            /\ tables' = r.tables
            /\ drop' = [called |-> TRUE, names |-> names, failDrop |-> failDrop,
                         before |-> tables, err |-> r.err]
            /\ UNCHANGED <<registry, db, cmd, err, calls, before, stages, out, fault, steps>>

InitDrop ==
    /\ registry = <<>>
    /\ db = FreshDB
    /\ cmd = Command("none", NoId, FALSE, {}, {}, {})
    /\ err = Nil
    /\ calls = <<>>
    /\ before = FreshDB
    /\ stages = <<>>
    /\ out = <<>>
    /\ fault = {}
    /\ steps = <<>>
    /\ tables = {}
    /\ drop = NoDrop

NextDrop == CreateTable \/ CallDropTable

SpecDrop == InitDrop /\ [][NextDrop]_vars

----------------------------------------------------------------------------
(* what the properties below speak about *)

\* position of id in a Registry of unique ids that holds it
Pos(ms, id) == CHOOSE i \in 1..Len(ms) : ms[i] = id

\* the ids of the first n Registry entries
PrefixIds(ms, n) == {ms[i] : i \in 1..n}

\* the ids the calls k..l of the command were made for
CalledIds(k, l) == {calls[n][2] : n \in k..l}

\* the History Store held an id the Registry does not have when the command started
UnknownApplied == \E x \in before.rows : x \notin Range(registry)

IsUp == cmd.name = "up"
IsRollbackTo == cmd.name = "down" /\ cmd.id # NoId
IsRollbackAll == cmd.name = "down" /\ cmd.id = NoId /\ cmd.all
IsRollbackLast == cmd.name = "down" /\ cmd.id = NoId /\ ~cmd.all

\* call k of the command is the forward (reverse) action that was made to fail
ForwardFailedAt(k) == calls[k][1] = "Migrate" /\ calls[k][2] \in cmd.failUp
ReverseFailedAt(k) == calls[k][1] = "Rollback" /\ calls[k][2] \in cmd.failDown

----------------------------------------------------------------------------
\* C1: starting from an empty History Store, with a Registry whose forward
\* actions all succeed, the applied ids after migrate() (RunMigrations of
\* `up`, Migrate as the first step of `regression`) are exactly the ids of
\* the Registry.
C1_MigrateAppliesAll ==
    /\ (IsUp /\ before.rows = {} /\ cmd.failUp = {}) => db.rows = Range(registry)
    /\ (cmd.name = "regression" /\ Len(stages) >= 1) => stages[1].rows = Range(registry)

C1_Witness ==
    /\ IsUp /\ before.rows = {} /\ cmd.failUp = {}
    /\ Len(registry) >= 2
    /\ Len(calls) = Len(registry)
    /\ db.rows = Range(registry)

\* C2: round trip of `regression`: after the full migrate, a rollbackAll that
\* returns leaves the History Store empty, and the migrate after it invokes
\* every forward action again, in Registry order, and ends with the applied
\* set of the first migrate.
C2_RoundTrip ==
    cmd.name = "regression" =>
        /\ Len(stages) >= 2 =>
            /\ stages[1].rows = Range(registry)
            /\ stages[2].rows = {}
        /\ Len(stages) = 3 =>
            /\ stages[3].rows = stages[1].rows
            /\ stages[3].calls = [i \in 1..Len(registry) |-> <<"Migrate", registry[i]>>]

C2_Witness ==
    /\ cmd.name = "regression"
    /\ Len(stages) = 3
    /\ Len(registry) >= 2
    /\ stages[3].rows = Range(registry)

C4_RollbackToOrder ==
    IsRollbackTo =>
        /\ \A k \in 1..Len(calls) :
            /\ calls[k][1] = "Rollback"
            /\ calls[k][2] # cmd.id
            /\ calls[k][2] \in Range(registry)
        /\ \A k, l \in 1..Len(calls) :
            k < l => Pos(registry, calls[k][2]) > Pos(registry, calls[l][2])
        /\ (err = Nil /\ cmd.id \in Range(registry)) =>
            CalledIds(1, Len(calls)) =
                {x \in before.rows \cap Range(registry) :
                    Pos(registry, x) > Pos(registry, cmd.id)}

C4_Witness ==
    /\ IsRollbackTo /\ err = Nil
    /\ Len(registry) = 3
    /\ before.rows = Range(registry)
    /\ cmd.id = registry[1]
    /\ calls = <<(<<"Rollback", registry[3]>>), (<<"Rollback", registry[2]>>)>>

\* C5: rollbackTo(targetId) with a targetId the Registry does not have fails,
\* invokes no reverse action and leaves the rows of the History Store as they
\* were.
C5_RollbackToAbsentFails ==
    (IsRollbackTo /\ cmd.id \notin Range(registry)) =>
        /\ err # Nil
        /\ calls = <<>>
        /\ db.rows = before.rows

C5_Witness ==
    /\ IsRollbackTo /\ cmd.id \notin Range(registry)
    /\ before.rows # {}
    /\ err = ErrMigrationIDDoesNotExist

\* C6: rollbackTo(targetId) with a targetId that is in the Registry but is not
\* applied fails with an error.
C6_RollbackToPendingFails ==
    (IsRollbackTo /\ cmd.id \in Range(registry) /\ cmd.id \notin before.rows)
        => err # Nil

\* C7, as stated: with an id in the History Store that the Registry does not
\* have, migrate() fails with UnknownAppliedMigrationError, no forward action
\* runs and the applied set is unchanged.
C7_Original ==
    (IsUp /\ UnknownApplied) =>
        /\ err = ErrUnknownPastMigration
        /\ calls = <<>>
        /\ db.rows = before.rows

\* C7, amended: with an id in the History Store that the Registry does not
\* have, migrate() fails, no forward action runs and the applied set is
\* unchanged; the error is UnknownAppliedMigrationError when the Registry is
\* not empty and its ids are unique, else the error of the validation that
\* runs before: no migration defined for an empty Registry, duplicated id
\* otherwise.
C7_MigrateRejectsUnknown ==
    (IsUp /\ UnknownApplied) =>
        /\ calls = <<>>
        /\ db.rows = before.rows
        /\ err = (IF registry = <<>> THEN ErrNoMigrationDefined
                  ELSE IF ~UniqueIds(registry) THEN ErrDuplicatedID
                  ELSE ErrUnknownPastMigration)

C7_Witness ==
    /\ IsUp /\ UnknownApplied
    /\ err = ErrUnknownPastMigration
    /\ Range(registry) \ before.rows # {}
    /\ cmd.failUp = {}

\* C8: with an id in the History Store that the Registry does not have,
\* rollbackLast() fails with UnknownAppliedMigrationError, no reverse action
\* runs and the applied set is unchanged.  Stated for a Registry that is not
\* empty: RollbackLast answers an empty one with "no migration defined"
\* before it looks at the database, as Migrate does (C7).
C8_RollbackLastRejectsUnknown ==
    (IsRollbackLast /\ UnknownApplied /\ registry # <<>>) =>
        /\ err = ErrUnknownPastMigration
        /\ calls = <<>>
        /\ db.rows = before.rows

\* C9: when a forward action fails during migrate(), it is the last action
\* of the run (no later entry is attempted), the error is returned, the
\* failing migration has no record, and the migrations applied earlier in
\* the run keep their records next to those applied before it.
C9_ForwardFailureAborts ==
    IsUp =>
        \A k \in 1..Len(calls) :
            ForwardFailedAt(k) =>
                /\ k = Len(calls)
                /\ err = ErrAction
                /\ calls[k][2] \notin db.rows
                /\ db.rows = before.rows \cup CalledIds(1, k - 1)
                /\ \A n \in 1..Len(registry) :
                    n > Pos(registry, calls[k][2]) => registry[n] \notin CalledIds(1, k)

C9_Witness ==
    /\ IsUp /\ before.rows = {}
    /\ Len(registry) = 3
    /\ Len(calls) = 2
    /\ ForwardFailedAt(2)
    /\ db.rows = {registry[1]}

\* C10: when a reverse action fails during rollbackLast(), rollbackTo() or
\* rollbackAll(), it is the last action of the operation, the error is
\* returned, the migration whose reverse action failed keeps its record, and
\* only the migrations reversed before it have lost theirs.
C10_ReverseFailureAborts ==
    cmd.name = "down" =>
        \A k \in 1..Len(calls) :
            ReverseFailedAt(k) =>
                /\ k = Len(calls)
                /\ err = ErrAction
                /\ calls[k][2] \in db.rows
                /\ db.rows = before.rows \ CalledIds(1, k - 1)

C10_Witness ==
    /\ IsRollbackAll
    /\ Len(calls) = 2
    /\ ReverseFailedAt(2)
    /\ err = ErrAction
    /\ Cardinality(db.rows) = 2

\* ---- C11 ----
\* the single rollback started on a History Store without records
RollbackLastOnEmptyStore == IsRollbackLast /\ before.rows = {}

C12_RollbackAllEmptiesStore ==
    (IsRollbackAll /\ err = Nil) => db.rows = {}

\* ---- C13 ----
\* the database the loop of rollbackAll stopped on (the status printed
\* afterwards creates the table)
LoopEndDB == [table |-> before.table, rows |-> db.rows]

\* the RollbackLast that stopped the loop: the one that runs on LoopEndDB
LastStep == RollbackLast(registry, LoopEndDB, cmd.failDown)

\* every iteration but the last reverses a different applied migration
C13_Steps ==
    (Running \/ IsRollbackAll)
        => /\ Len(calls) <= Cardinality(before.rows)
           /\ \A k \in 1..Len(calls) :
                 /\ calls[k][1] = "Rollback"
                 /\ calls[k][2] \in before.rows
                 /\ \A l \in 1..Len(calls) : calls[k] = calls[l] => k = l

\* nil exactly for the no-applied-migration error; any other error is
\* returned as it is and by the iteration that met it
C13_Result ==
    IsRollbackAll
        => /\ LastStep.err # Nil
           /\ err = Nil <=> LastStep.err = ErrNoRunMigration
           /\ err # Nil => err = LastStep.err
           /\ \A k \in 1..Len(calls) : ReverseFailedAt(k) => k = Len(calls) /\ err = ErrAction

\* C13: rollbackAll() always terminates: starting from any applied set it
\* performs finitely many rollbackLast() steps (at most one per applied
\* record, and one more), returns nil exactly when rollbackLast() reports
\* the no-applied-migration error, and returns any other error immediately.
C13_RollbackAllTerminates ==
    /\ [](C13_Steps /\ C13_Result)
    /\ Running ~> IsRollbackAll

C13_Witness ==
    /\ IsRollbackAll
    /\ err = Nil
    /\ Len(calls) >= 2
    /\ Len(calls) = Cardinality(before.rows)
    /\ db.rows = {}

\* ---- C14 ----
\* `up` whose Migrate returned nil: the command that prints a diff
IsCompletedUp == IsUp /\ err = Nil

\* the first report of a completed `up` is the diff: "no change" exactly when
\* the run inserted no record, otherwise the list of the ids it inserted
C14_Diff ==
    IsCompletedUp
        => /\ Len(out) >= 1
           /\ out[1].kind \in {"NoChange", "New"}
           /\ out[1].kind = "NoChange" <=> (db.rows = before.rows /\ calls = <<>>)
           /\ out[1].kind = "New" => out[1].ids = db.rows \ before.rows
           /\ out[1].kind = "New" => out[1].ids = CalledIds(1, Len(calls))
           /\ (before.rows = {}) => (out[1].kind = "New" /\ out[1].ids = Range(registry))

\* a completed `up` that follows a completed `up` reports "no change"
C14_SecondRun ==
    (IsCompletedUp /\ cmd'.name = "up" /\ err' = Nil) => out'[1].kind = "NoChange"

\* C14: the diff of a migrate run (the ids read after it minus the ids read
\* before it) is empty, and the run reports "no change", exactly when that
\* run applied no migration; a second consecutive migrate reports "no
\* change"; a first run on an empty store lists the ids it applied and does
\* not report "no change".
C14_DiffReportsNewMigrations ==
    /\ []C14_Diff
    /\ [][C14_SecondRun]_vars

C14_Witness ==
    /\ IsCompletedUp
    /\ before.rows # {}
    /\ out[1].kind = "New"
    /\ out[1].ids # Range(registry)
    /\ Cardinality(out[1].ids) >= 2

\* ---- C15 ----
\* `up` with an empty Registry
IsUpOnEmptyRegistry == IsUp /\ registry = <<>>

\* the whole output of the command is the one "up to date" line
OnlyUpToDate == Len(out) = 1 /\ out[1].kind = "UpToDate"

\* C15 as stated: with an empty Registry, migrate() succeeds (no error, no
\* action, no record inserted) and the status report is the single "up to
\* date" line.
C15_Original ==
    IsUpOnEmptyRegistry
        => /\ err = Nil
           /\ calls = <<>>
           /\ db.rows = before.rows
           /\ out[Len(out)].kind = "UpToDate"

\* C15 amended: with an empty Registry, migrate() fails with the
\* no-migration-defined error, executes no action and inserts no record;
\* no diff is reported, and the status report printed after the failure is
\* the single "up to date" line.
C15_EmptyRegistryMigrateFails ==
    IsUpOnEmptyRegistry
        => /\ err = ErrNoMigrationDefined
           /\ calls = <<>>
           /\ db.rows = before.rows
           /\ OnlyUpToDate

C15_Witness ==
    /\ IsUpOnEmptyRegistry
    /\ err = ErrNoMigrationDefined
    /\ calls = <<>>
    /\ db.rows = {}
    /\ OnlyUpToDate

\* ---- C16 ----
\* the ids of group g are listed in the order of the Registry
InRegistryOrder(g) ==
    \A a, b \in 1..Len(g) : a < b => Pos(registry, g[a]) < Pos(registry, g[b])

\* the entries listed under heading h of a listing: none when the heading is
\* not printed
Group(line, h) ==
    IF \E n \in 1..Len(line.groups) : line.groups[n][1] = h
    THEN line.groups[CHOOSE n \in 1..Len(line.groups) : line.groups[n][1] = h][2]
    ELSE <<>>

\* line is the status report of a store that holds the records rows
IsStatusOf(line, rows, forcePrint) ==
    /\ line.kind \in {"UpToDate", "Status"}
    /\ line.kind = "UpToDate"
          <=> ((\A i \in 1..Len(registry) : registry[i] \in rows) /\ ~forcePrint)
    /\ line.kind = "Status"
          => /\ \A n \in 1..Len(line.groups) :
                    /\ line.groups[n][1] \in {"Applied", "Pending"}
                    /\ line.groups[n][2] # <<>>
                    /\ InRegistryOrder(line.groups[n][2])
                    /\ (n > 1 => (line.groups[n - 1][1] = "Applied"
                                    /\ line.groups[n][1] = "Pending"))
             /\ \A i \in 1..Len(registry) :
                    /\ registry[i] \in Range(Group(line, "Applied")) <=> registry[i] \in rows
                    /\ registry[i] \in Range(Group(line, "Pending")) <=> registry[i] \notin rows
             /\ Range(Group(line, "Applied")) \cup Range(Group(line, "Pending"))
                    = Range(registry)
             /\ Len(Group(line, "Applied")) + Len(Group(line, "Pending")) = Len(registry)

\* C16: the status report is the single "up to date" line exactly when every
\* Registry entry is applied and printing is not forced; otherwise it lists
\* the applied entries and then the pending entries, each group in Registry
\* order, every Registry entry in exactly one group. (`up`, `down` and
\* `status` end with the unforced report of the store they leave; the
\* reports of `regression` are forced, one for each completed step.)
C16_StatusReport ==
    /\ cmd.name \in {"up", "down", "status"}
          => /\ out # <<>>
             /\ out[Len(out)].kind \in {"UpToDate", "Status"}
             /\ \A k \in 1..Len(out) :
                    out[k].kind \in {"UpToDate", "Status"}
                        => IsStatusOf(out[k], db.rows, FALSE)
    /\ cmd.name = "regression"
          => /\ Len(out) = Len(stages)
             /\ \A k \in 1..Len(out) : IsStatusOf(out[k], stages[k].rows, TRUE)

\* the three forced listings of a regression: every entry applied, every
\* entry pending, every entry applied
C16_Witness ==
    /\ cmd.name = "regression"
    /\ Len(registry) >= 2
    /\ Len(out) = 3
    /\ out[2].kind = "Status"
    /\ Group(out[2], "Pending") = registry
    /\ out[3].kind = "Status"
    /\ Group(out[3], "Applied") = registry
    /\ Group(out[3], "Pending") = <<>>

\* ---- C17 ----
\* some Registry entry had its record when the command started
SomeEntryApplied == \E i \in 1..Len(registry) : registry[i] \in before.rows

\* the index of the last Registry entry that had its record
HighestApplied ==
    CHOOSE i \in 1..Len(registry) :
        /\ registry[i] \in before.rows
        /\ \A j \in 1..Len(registry) : j > i => registry[j] \notin before.rows

\* C17 as stated: rollbackLast() with a non-empty applied set reverses
\* exactly one migration, the applied entry with the highest index in the
\* Registry: it calls its reverse action and then removes only that record.
\* (Read for reverse actions that succeed and a Registry that is not empty.)
C17_Original ==
    (IsRollbackLast /\ before.rows # {} /\ cmd.failDown = {} /\ registry # <<>>)
        => /\ Len(calls) = 1
           /\ calls[1][1] = "Rollback"
           /\ calls[1][2] \in before.rows
           /\ db.rows = before.rows \ {calls[1][2]}

\* C17 amended: rollbackLast() on a store in which some Registry entry is
\* applied reverses exactly one migration, the applied entry with the
\* highest index in the Registry, wherever its record stands among the
\* records: it calls that entry's reverse action and then removes that
\* record and no other (a reverse action that fails leaves every record).
\* When the records are all of ids the Registry does not have, it reverses
\* nothing, removes nothing and fails.
C17_RollbackLastReversesHighest ==
    /\ (IsRollbackLast /\ SomeEntryApplied)
        => /\ calls = << <<"Rollback", registry[HighestApplied]>> >>
           /\ err = (IF ReverseFailedAt(1) THEN ErrAction ELSE Nil)
           /\ db.rows = (IF ReverseFailedAt(1) THEN before.rows
                         ELSE before.rows \ {registry[HighestApplied]})
    /\ (IsRollbackLast /\ ~SomeEntryApplied)
        => /\ calls = <<>>
           /\ err # Nil
           /\ db.rows = before.rows

\* the reversed entry is the last of the Registry although the first entry
\* is pending and the store is not a prefix of the Registry
C17_Witness ==
    /\ IsRollbackLast
    /\ err = Nil
    /\ Len(registry) >= 3
    /\ registry[1] \notin before.rows
    /\ registry[2] \in before.rows
    /\ calls = << <<"Rollback", registry[Len(registry)]>> >>
    /\ db.rows = before.rows \ {registry[Len(registry)]}

\* ---- C18 ----
\* the command of the step called the forward (reverse) action of id on the
\* database and the action succeeded
ForwardSucceeded(id) ==
    /\ cmd'.name = "up"
    /\ \E k \in 1..Len(calls') : calls'[k] = <<"Migrate", id>>
    /\ id \notin cmd'.failUp

ReverseSucceeded(id) ==
    /\ cmd'.name = "down"
    /\ \E k \in 1..Len(calls') : calls'[k] = <<"Rollback", id>>
    /\ id \notin cmd'.failDown

\* a step inserts the record of id exactly when it ran the forward action of
\* id with success, deletes it exactly when it ran the reverse action of id
\* with success, and otherwise leaves it as it was
C18_Step ==
    \A id \in Ids :
        /\ (id \notin db.rows /\ id \in db'.rows) => ForwardSucceeded(id)
        /\ (id \in db.rows /\ id \notin db'.rows) => ReverseSucceeded(id)
        /\ ForwardSucceeded(id) => id \in db'.rows
        /\ ReverseSucceeded(id) => id \notin db'.rows
        /\ ~(ForwardSucceeded(id) /\ ReverseSucceeded(id))

\* C18: for every migration, a record exists in the History Store exactly
\* when its forward action has succeeded more recently than any successful
\* reverse action: the store starts empty, a record is inserted only after
\* the forward action succeeded, deleted only after the reverse action
\* succeeded, and no other transition changes it.
C18_RecordsFollowActions == [][C18_Step]_vars

\* a `down` that deleted some records and left others
C18_Witness ==
    /\ cmd.name = "down"
    /\ before.rows \ db.rows # {}
    /\ db.rows # {}
    /\ \A id \in before.rows \ db.rows :
          \E k \in 1..Len(calls) : calls[k] = <<"Rollback", id>> /\ ~ReverseFailedAt(k)

\* ---- C19 ----
\* the Registry entries without a record when the command started, in the
\* order of the Registry
PendingBefore == listEntries(registry, 1, before.rows, FALSE)

\* s is the beginning of t
IsPrefixOf(s, t) == Len(s) <= Len(t) /\ \A k \in 1..Len(s) : s[k] = t[k]

\* C19: migrate() calls forward actions only, and only of Registry entries
\* that have no record, in the order of the Registry (the order of the
\* sequence, not of the ids), each at most once in a run; it never calls the
\* forward action of an applied migration. A run without a failure calls
\* the forward action of every pending entry; migrate() on a Registry that
\* is applied in full calls no action and changes no record.
C19_MigrateRunsPendingInOrder ==
    IsUp
        => /\ \A k \in 1..Len(calls) :
                 /\ calls[k][1] = "Migrate"
                 /\ calls[k][2] \notin before.rows
           /\ IsPrefixOf([k \in 1..Len(calls) |-> calls[k][2]], PendingBefore)
           /\ \A k, l \in 1..Len(calls) :
                 k < l => /\ calls[k][2] # calls[l][2]
                          /\ Pos(registry, calls[k][2]) < Pos(registry, calls[l][2])
           /\ err = Nil => Len(calls) = Len(PendingBefore)
           /\ PendingBefore = <<>> => (calls = <<>> /\ db.rows = before.rows)

\* a run that skipped the applied entry between two pending ones and called
\* their forward actions in the order of the Registry, which is not the
\* order of the ids
C19_Witness ==
    /\ IsUp
    /\ err = Nil
    /\ Len(registry) = 3
    /\ before.rows = {registry[2]}
    /\ calls = << <<"Migrate", registry[1]>>, <<"Migrate", registry[3]>> >>
    /\ registry[1] > registry[3]
    /\ db.rows = Range(registry)

\* ---- C20 ----
\* what the command of the state leaves when every read succeeds: the
\* database, the error and the calls
WithoutFault ==
    IF cmd.name = "up"
    THEN LET r == RunMigrations(registry, before, cmd.failUp, {})
         IN  [db |-> printMigrationStatus(r.db), err |-> r.err, calls |-> r.calls]
    ELSE IF cmd.name = "down"
    THEN LET r == downOperation(registry, before, cmd.id, cmd.all, cmd.failDown)
         IN  [db |-> printMigrationStatus(r.db), err |-> r.err, calls |-> r.calls]
    ELSE [db |-> printMigrationStatus(before), err |-> Nil, calls |-> <<>>]

\* C20: a read of the History Store that fails inside getAppliedIDs (which
\* then answers with the empty set) changes only what is displayed: the
\* actions called, the records inserted and deleted and the error returned
\* are those of the same command with reads that succeed.
C20_ReadFailureOnlyDisplayed ==
    (cmd.name \in {"up", "down", "status"} /\ fault # {})
        => /\ db = WithoutFault.db
           /\ err = WithoutFault.err
           /\ calls = WithoutFault.calls

\* an `up` on a store with records whose first read failed: it lists the
\* records as new although it called nothing and inserted nothing
C20_Witness ==
    /\ IsUp
    /\ fault = {"before"}
    /\ before.rows # {}
    /\ err = Nil
    /\ calls = <<>>
    /\ db.rows = before.rows
    /\ out[1].kind = "ReadFailed"
    /\ out[2].kind = "New"
    /\ out[2].ids = before.rows

\* ---- C21 ----
\* the ids a status report shows: none for the "up to date" line
ShownIds(line) ==
    IF line.kind = "Status"
    THEN Range(Group(line, "Applied")) \cup Range(Group(line, "Pending"))
    ELSE {}

\* C21: while the History Store holds an id that the Registry does not have,
\* the status report (here that of `status`, on a Registry that is not
\* empty) is never the "up to date" line and never a listing without that
\* id.
C21_StatusSurfacesUnknown ==
    (cmd.name = "status" /\ registry # <<>>)
        => \A x \in db.rows :
              x \notin Range(registry)
                  => /\ out[Len(out)].kind # "UpToDate"
                     /\ x \in ShownIds(out[Len(out)])

\* ---- C22 ----
\* two entries of the Registry have the same id
RepeatedId == \E i, j \in 1..Len(registry) : i # j /\ registry[i] = registry[j]

\* C22: migrate() on a Registry in which two definitions have the same id
\* fails (with the duplicated-id error) before any forward action is called
\* and before any record is inserted.
C22_MigrateRejectsDuplicates ==
    (IsUp /\ RepeatedId)
        => /\ err = ErrDuplicatedID
           /\ calls = <<>>
           /\ db.rows = before.rows

\* the rejected Registry has an entry without a record, whose forward action
\* would have been called
C22_Witness ==
    /\ IsUp
    /\ RepeatedId
    /\ err = ErrDuplicatedID
    /\ calls = <<>>
    /\ \E i \in 1..Len(registry) : registry[i] \notin before.rows
    /\ db.rows = before.rows

\* ---- C23 ----
\* how Start ended: the last of its steps
StartEnd == steps[Len(steps)]

\* C23: whenever the operation of the selected command (`up`, `down`,
\* `regression`) fails, Start returns the error to its caller: it does not
\* return nil and does not exit with status 0.
C23_ErrorsReachCaller ==
    (cmd.name \in {"up", "down", "regression"} /\ err # Nil)
        => StartEnd = "StartReturnsError"

\* ---- C24 ----
\* the steps of a regression in which nothing fails
FullRegression ==
    <<"getGorm", "DeleteDatabase", "CreateDatabase", "getGorm",
      "Migrate", "Status", "RollbackAll", "Status", "Migrate", "Status",
      "Success", "Exit0">>

\* the steps of regression that can fail
FailingSteps == {"DeleteDatabase", "CreateDatabase", "Migrate", "RollbackAll"}

\* the steps before Start ended: without "ReturnError" and what follows it
StepsTaken ==
    IF \E n \in 1..Len(steps) : steps[n] = "ReturnError"
    THEN SubSeq(steps, 1, (CHOOSE n \in 1..Len(steps) : steps[n] = "ReturnError") - 1)
    ELSE steps

\* the number of steps named name among the steps
Count(name) == Cardinality({n \in 1..Len(steps) : steps[n] = name})

\* C24: regression deletes the test database, creates it, migrates, prints
\* the status, rolls back all, prints the status, migrates again and prints
\* the status, in this order, and stops at the first step that fails; the
\* success message is printed and the process exits 0 only if both migrate
\* runs and the rollback of all succeeded.
C24_RegressionOrder ==
    cmd.name = "regression"
        => /\ IsPrefixOf(StepsTaken, FullRegression)
           /\ err = Nil <=> steps = FullRegression
           /\ err # Nil => /\ StepsTaken # <<>>
                           /\ StepsTaken[Len(StepsTaken)] \in FailingSteps
                           /\ Count("Success") = 0
                           /\ Count("Exit0") = 0
           /\ Count("Status") = Len(out)
           /\ Count("Status") = Len(stages)
           /\ (Count("Success") = 1 \/ Count("Exit0") = 1)
                 => /\ Len(stages) = 3
                    /\ stages[1].rows = Range(registry)
                    /\ stages[2].rows = {}
                    /\ stages[3].rows = Range(registry)
           /\ Len(stages) >= 1 => \A k \in 1..Len(stages[1].calls) :
                                      stages[1].calls[k][1] = "Migrate"
           /\ Len(stages) >= 2 => \A k \in 1..Len(stages[2].calls) :
                                      stages[2].calls[k][1] = "Rollback"
           /\ Len(stages) >= 3 => \A k \in 1..Len(stages[3].calls) :
                                      stages[3].calls[k][1] = "Migrate"

\* a regression stopped by its second Migrate: two statuses were printed,
\* no success message, no exit
C24_Witness ==
    /\ cmd.name = "regression"
    /\ err = ErrAction
    /\ Len(stages) = 2
    /\ Len(out) = 2
    /\ StepsTaken = SubSeq(FullRegression, 1, 9)
    /\ StartEnd = "StartReturnsError"

\* ---- C25 ----
\* Start ran without a command or with an argument that is no command
IsNoCommand == cmd.name \in {"", "unknown"}

IsDown == cmd.name = "down"

RollbackSteps == {"RollbackTo", "RollbackAll", "RollbackLast"}

\* the rollback the flags of the command ask for, and what it does to the
\* database the command started on
ChosenStep ==
    IF cmd.id # NoId THEN "RollbackTo" ELSE IF cmd.all THEN "RollbackAll" ELSE "RollbackLast"

ChosenRollback ==
    IF cmd.id # NoId THEN RollbackTo(registry, before, cmd.id, cmd.failDown)
    ELSE IF cmd.all THEN rollbackAllMigrations(registry, before, cmd.failDown)
    ELSE RollbackLast(registry, before, cmd.failDown)

\* C26: each `down` performs exactly one rollback operation: rollbackTo(id)
\* when --id is given (also when --all is set), otherwise rollbackAll when
\* --all is set, otherwise rollbackLast; the status is printed afterwards on
\* success and on failure; on failure the command returns the error and
\* does not exit with status 0.
C26_DownPrecedence ==
    IsDown
        => /\ Cardinality({n \in 1..Len(steps) : steps[n] \in RollbackSteps}) = 1
           /\ steps[2] = ChosenStep
           /\ err = ChosenRollback.err
           /\ calls = ChosenRollback.calls
           /\ db.rows = ChosenRollback.db.rows
           /\ steps[3] = "Status"
           /\ Len(out) = 1
           /\ out[1].kind \in {"UpToDate", "Status"}
           /\ err = Nil => (steps[4] = "Exit0" /\ Len(steps) = 4)
           /\ err # Nil => (steps[4] = "ReturnError"
                            /\ \A n \in 1..Len(steps) : steps[n] # "Exit0")

\* --id and --all together: the rollback stopped at the entry named by --id
\* and left records that a rollback of all would have removed
C26_Witness ==
    /\ IsDown
    /\ cmd.id # NoId
    /\ cmd.all
    /\ err = Nil
    /\ calls # <<>>
    /\ db.rows # {}
    /\ steps = <<"getGorm", "RollbackTo", "Status", "Exit0">>


\* ---- C27 ----
\* a `down` on a database in which the migrations table was never created
OnMissingTable == IsDown /\ ~before.table /\ registry # <<>>

\* C27: rollbackLast() and rollbackAll() issued through `down` on a database
\* whose migrations table does not exist yet behave as on an empty History
\* Store: rollbackLast() reports the no-applied-migration error and
\* rollbackAll() ends without error.
C27_MissingTableAsEmptyStore ==
    /\ (OnMissingTable /\ IsRollbackLast) => err = ErrNoRunMigration
    /\ (OnMissingTable /\ IsRollbackAll) => err = Nil


\* ---- C28 ----
\* name k of the call fails a check of DropTable
FailsCheck(k) ==
    drop.names[k].kind # "string" \/ drop.names[k].table \notin drop.before

SomeNameFailsCheck == \E k \in 1..Len(drop.names) : FailsCheck(k)

\* the first name that fails a check is a nil value
NilReachedFirst ==
    \E k \in 1..Len(drop.names) :
        /\ drop.names[k].kind = "nil"
        /\ \A j \in 1..(k - 1) : ~FailsCheck(j)

\* C28 as stated: if any of the given names is not a string or names a table
\* that does not exist, DropTable returns an error and drops none of the given
\* tables; tables are dropped only after every name passed both checks.
C28_Original ==
    drop.called
        => /\ SomeNameFailsCheck
                => (tables = drop.before /\ drop.err \in {ErrNotString, ErrNoTable})
           /\ tables # drop.before => ~SomeNameFailsCheck

\* C28 amended: if any of the given names is not a string or names a table
\* that does not exist, DropTable drops none of the given tables and does not
\* succeed: it returns the error of the first name that fails a check, unless
\* that name is a nil value, on which DropTable panics instead of returning;
\* tables are dropped only after every name passed both checks.
C28_DropTableAllOrNothing ==
    drop.called
        => /\ SomeNameFailsCheck
                => /\ tables = drop.before
                   /\ drop.err \in {ErrNotString, ErrNoTable, NilPanic}
                   /\ drop.err = NilPanic <=> NilReachedFirst
           /\ ~SomeNameFailsCheck => drop.err \in {Nil, ErrDB}
           /\ tables # drop.before => ~SomeNameFailsCheck

\* the first name is an existing table, the second a missing one: the
\* existing table is still there after the call
C28_Witness ==
    /\ drop.called
    /\ Len(drop.names) = 2
    /\ ~FailsCheck(1)
    /\ drop.names[2].kind = "string"
    /\ FailsCheck(2)
    /\ drop.err = ErrNoTable
    /\ tables = drop.before
    /\ drop.names[1].table \in tables


\* ---- C29 ----
\* the History Store holds exactly the ids of the first n Registry entries
AppliedIsPrefix(n) == db.rows = PrefixIds(registry, n)

\* C29: with a fixed Registry of unique ids and a History Store that starts
\* empty, after any sequence of migrate(), rollbackLast(), rollbackTo(id) and
\* rollbackAll(), aborted by a failing forward or reverse action or not, the
\* applied set is a prefix of the Registry order: no applied migration
\* follows a pending one.
C29_AppliedIsPrefix ==
    /\ \E n \in 0..Len(registry) : AppliedIsPrefix(n)
    /\ \A i, j \in 1..Len(registry) :
           (i < j /\ registry[j] \in db.rows) => registry[i] \in db.rows

\* a rollbackTo(id) aborted by a failing reverse action after it reversed
\* an entry: the records left are a proper, non-empty prefix
C29_Witness ==
    /\ IsRollbackTo
    /\ err = ErrAction
    /\ Len(calls) > 1
    /\ db.rows # {}
    /\ Cardinality(db.rows) < Cardinality(before.rows)
    /\ \E n \in 1..(Len(registry) - 1) : AppliedIsPrefix(n)


\* ---- C30 ----
IsStatus == cmd.name = "status"

\* C30: the status report is read-only with respect to migration state: the
\* `status` command (printMigrationStatus) invokes no forward or reverse
\* action and inserts or deletes no record, so the applied set is the same
\* before and after it, whether or not its read of the table succeeds; the
\* same holds of printMigrationStatus on every database the commands reach.
C30_StatusIsReadOnly ==
    /\ IsStatus
          => /\ calls = <<>>
             /\ db.rows = before.rows
             /\ db.table
             /\ err = Nil
    /\ printMigrationStatus(db).rows = db.rows

\* a `status` whose read failed, on a store that holds records: the report
\* says so and the records are still there
C30_Witness ==
    /\ IsStatus
    /\ fault = {"status"}
    /\ before.rows # {}
    /\ out[1].kind = "ReadFailed"
    /\ db.rows = before.rows
    /\ calls = <<>>

====
